---- MODULE Spec2Model ----
(***************************************************************************)
(* Lieutenant Terraform: the JSON preference store (modules/config.py) and *)
(* the main window (modules/lieutenant_terraform.py): command runner,      *)
(* regex search over the output pane, preferences editor and exit.         *)
(*                                                                         *)
(* Python values are modelled as follows.  A scalar is a record            *)
(* [type, value]: a bool is [type |-> "bool"], a str is [type |-> "str"].  *)
(* A dict is a function from key strings to values.  A JSON document is    *)
(* modelled the same way with JSON scalars: the literals true/false are    *)
(* [type |-> "literal"], a JSON string is [type |-> "string"].             *)
(* Text is a sequence of one-character strings; text offsets count from 0. *)
(***************************************************************************)
EXTENDS Integers, Sequences, FiniteSets, TLC

VARIABLES
    pc,                   \* position of the process: start, configured, mainloop, destroyed, crashed
    environ,              \* os.environ restricted to LT_CFG
    files,                \* the file system: path -> [kind, doc]
    argv,                 \* sys.argv[1:]
    config_file,          \* LieutenantTerraformConfig.config_file
    prefs,                \* LieutenantTerraformConfig.prefs
    main_text_area,       \* contents of the output Text widget
    highlight,            \* offsets carrying the tag "highlight"
    current_highlight,    \* offsets carrying the tag "current_highlight"
    search_entry,         \* contents of the search Entry widget
    search_results,       \* LieutenantTerraform.search_results
    current_match_index,  \* LieutenantTerraform.current_match_index
    search_status,        \* the search_status label "c/t matches", as [current |-> c, total |-> t]
    exit_requested,       \* an Exit click / WM_DELETE_WINDOW event waits in the Tk event queue
    last_call,            \* the constructor, method, handler or user event that came last
    raised                \* the exception that escaped it ("" when it returned normally)

vars == <<pc, environ, files, argv, config_file, prefs, main_text_area, highlight,
          current_highlight, search_entry, search_results, current_match_index,
          search_status, exit_requested, last_call, raised>>

envVars == <<environ, argv>>

storeVars == <<config_file, prefs, files>>

searchVars == <<main_text_area, highlight, current_highlight, search_entry,
                search_results, current_match_index, search_status>>

(***************************************************************************)
(* Python and JSON values                                                  *)
(***************************************************************************)
PyBool(b) == [type |-> "bool", value |-> IF b THEN "True" ELSE "False"]

PyStr(s) == [type |-> "str", value |-> s]

EmptyDict == [k \in {} |-> PyStr("")]

IsScalar(v) == DOMAIN v = {"type", "value"}

\* isinstance(v, dict)
IsDict(v) == ~IsScalar(v)

\* bool(v) as used by "if v:" and "if not v:"
Truthy(v) ==
    IF IsDict(v) THEN DOMAIN v # {}
    ELSE IF v.type = "bool" THEN v.value = "True"
    ELSE v.value # ""

\* dict.update(u) on the dict d
DictUpdate(d, u) ==
    [k \in (DOMAIN d) \cup (DOMAIN u) |-> IF k \in DOMAIN u THEN u[k] ELSE d[k]]

\* json.dump of one scalar
JsonDumpScalar(v) ==
    IF v.type = "bool"
    THEN [type |-> "literal", value |-> IF v.value = "True" THEN "true" ELSE "false"]
    ELSE [type |-> "string", value |-> v.value]

\* json.loads of one scalar
JsonLoadScalar(j) ==
    IF j.type = "literal"
    THEN [type |-> "bool", value |-> IF j.value = "true" THEN "True" ELSE "False"]
    ELSE [type |-> "str", value |-> j.value]

JsonDump(v) ==
    IF IsScalar(v) THEN JsonDumpScalar(v)
    ELSE [k \in DOMAIN v |->
            IF IsScalar(v[k]) THEN JsonDumpScalar(v[k])
            ELSE [k2 \in DOMAIN v[k] |-> JsonDumpScalar(v[k][k2])]]

JsonLoads(j) ==
    IF IsScalar(j) THEN JsonLoadScalar(j)
    ELSE [k \in DOMAIN j |->
            IF IsScalar(j[k]) THEN JsonLoadScalar(j[k])
            ELSE [k2 \in DOMAIN j[k] |-> JsonLoadScalar(j[k][k2])]]

(***************************************************************************)
(* The file system and the environment                                     *)
(***************************************************************************)
LocalPath == "./.lt_cfg.json"

HomePath == "/home/user/.lt_cfg.json"

EnvPath == "/etc/lt/custom.json"

Paths == {EnvPath, LocalPath, HomePath}

Absent == [kind |-> "absent", doc |-> EmptyDict]

Garbage == [kind |-> "garbage", doc |-> EmptyDict]

JsonFile(doc) == [kind |-> "json", doc |-> doc]

\* os.path.isfile(path) on the file system fs
isfile(fs, path) == path \in DOMAIN fs /\ fs[path].kind # "absent"

NoEnv == [k \in {} |-> ""]

(***************************************************************************)
(* modules/config.py                                                       *)
(***************************************************************************)
Categories == {"settings", "cmds", "aliases"}

SaveGeometryKey == "Save window geometry on exit"

GeometryKey == "Window geometry"

DefaultPrefs ==
    [k \in Categories |->
        IF k = "aliases" THEN EmptyDict
        ELSE IF k = "cmds"
             THEN [c \in {"terraform", "git"} |-> PyStr(c)]
             ELSE [s \in {SaveGeometryKey, GeometryKey} |->
                      IF s = SaveGeometryKey THEN PyBool(TRUE) ELSE PyStr("")]]

\* resolve_path with the home directory checked before the local directory
resolve_path_home_first(env, fs) ==
    IF "LT_CFG" \in DOMAIN env THEN env["LT_CFG"]
    ELSE IF isfile(fs, HomePath) THEN HomePath
    ELSE IF isfile(fs, LocalPath) THEN LocalPath
    ELSE ""

\* __init__, lines 25-32: locate the configuration file
resolve_path(env, fs) ==
    IF "LT_CFG" \in DOMAIN env THEN env["LT_CFG"]
    ELSE IF isfile(fs, LocalPath) THEN LocalPath
    ELSE IF isfile(fs, HomePath) THEN HomePath
    ELSE ""

\* MergeCategory replacing the category wholesale instead of merging it
MergeCategory_replace(p, cfg, cat) ==
    IF cat \in DOMAIN cfg
    THEN [p EXCEPT ![cat] = cfg[cat]]
    ELSE p

\* load, lines 59-64: merge one category of the parsed document
MergeCategory(p, cfg, cat) ==
    IF cat \in DOMAIN cfg
    THEN [p EXCEPT ![cat] = DictUpdate(@, cfg[cat])]
    ELSE p

\* load, lines 58-66, once the file has been read: the new prefs
LoadPrefs(p, cfgFile, doc) ==
    LET cfg == JsonLoads(doc)
        p1  == MergeCategory(p, cfg, "settings")
        p2  == MergeCategory(p1, cfg, "cmds")
        p3  == MergeCategory(p2, cfg, "aliases")
    IN  DictUpdate(p3, [k \in {"config_file"} |-> PyStr(cfgFile)])

\* the exception load raises on this path, "" when it succeeds
LoadError(path) ==
    IF ~isfile(files, path) THEN "FileNotFoundError"
    ELSE IF files[path].kind = "garbage" THEN "JSONDecodeError"
    ELSE ""

\* DataToSave without the exclusion of the bookkeeping key
DataToSave_all_keys(p) == JsonDump(p)

\* save, line 82: the document written to the file
DataToSave(p) == JsonDump([k \in (DOMAIN p) \ {"config_file"} |-> p[k]])

\* save, lines 77-78: the path written
SavePath(cfgFile) == IF cfgFile = "" THEN HomePath ELSE cfgFile

\* update, lines 96-102: one key of the updates
UpdateKey(p, key, value) ==
    IF key \in DOMAIN p /\ IsDict(p[key]) /\ IsDict(value)
    THEN [p EXCEPT ![key] = DictUpdate(@, value)]
    ELSE DictUpdate(p, [k \in {key} |-> value])

RECURSIVE UpdatePrefs(_, _, _)
UpdatePrefs(p, updates, keys) ==
    IF keys = {} THEN p
    ELSE LET key == CHOOSE k \in keys : TRUE
         IN  UpdatePrefs(UpdateKey(p, key, updates[key]), updates, keys \ {key})

(***************************************************************************)
(* modules/lieutenant_terraform.py: search over the output pane            *)
(***************************************************************************)
\* The regular expressions modelled: a sequence of atoms, an atom being a
\* literal character or ".", each optionally followed by "+".
IsQuantifier(c) == c = "+"

\* Tcl rejects a quantifier with no operand ("quantifier operand invalid")
ValidRegex(pattern) ==
    /\ Len(pattern) > 0 => ~IsQuantifier(pattern[1])
    /\ \A k \in 1..(Len(pattern) - 1) :
          ~(IsQuantifier(pattern[k]) /\ IsQuantifier(pattern[k + 1]))

\* one atom against one character; "." never matches a newline in a Text search
AtomMatches(atom, ch) == ch # "\n" /\ (atom = "." \/ atom = ch)

\* does pattern[k..] match some text starting at index i (1-based) of text
RECURSIVE MatchFrom(_, _, _, _)
MatchFrom(text, pattern, k, i) ==
    IF k > Len(pattern) THEN TRUE
    ELSE IF k < Len(pattern) /\ IsQuantifier(pattern[k + 1])
    THEN \E n \in 1..(Len(text) - i + 1) :
            /\ \A m \in i..(i + n - 1) : AtomMatches(pattern[k], text[m])
            /\ MatchFrom(text, pattern, k + 2, i + n)
    ELSE /\ i <= Len(text)
         /\ AtomMatches(pattern[k], text[i])
         /\ MatchFrom(text, pattern, k + 1, i + 1)

\* a match of pattern starts at offset o (0-based) of text
MatchesAt(text, pattern, o) == MatchFrom(text, pattern, 1, o + 1)

\* Text.search(pattern, start, stopindex=END, regexp=True): the offset of the
\* first match at or after start, -1 for the empty string Tk returns
TextSearch(text, pattern, start) ==
    LET hits == {o \in start..(Len(text) - 1) : MatchesAt(text, pattern, o)}
    IN  IF hits = {} THEN -1
        ELSE CHOOSE o \in hits : \A o2 \in hits : o <= o2

\* MatchEnd resuming one character after the start of the match
MatchEnd_next_char(start, pattern) == start + 1

\* __find, line 142: end = f"{start}+{len(pattern)}c"
MatchEnd(start, pattern) == start + Len(pattern)

\* __find, lines 137-145: the while loop
RECURSIVE find_loop(_, _, _, _)
find_loop(text, pattern, start, results) ==
    LET found == TextSearch(text, pattern, start)
    IN  IF found = -1 THEN results
        ELSE find_loop(text, pattern, MatchEnd(found, pattern),
                       Append(results, <<found, MatchEnd(found, pattern)>>))

\* tag_remove leaving the tag in place
tag_remove_nothing(tagged) == tagged

\* tag_remove(tag, "1.0", END) on the offsets tagged: none stays tagged
tag_remove(tagged) == {}

\* tag_add(tag, start, end): the offsets tagged, clipped to the text
TagRange(text, range) == {o \in range[1]..(range[2] - 1) : o < Len(text)}

\* __next_match, line 159
next_index(current, count) == (current + 1) % count

\* previous_index stopping at the first match instead of wrapping
previous_index_clamped(current, count) == IF current <= 0 THEN 0 ELSE current - 1

\* __previous_match, line 169
previous_index(current, count) == (current - 1) % count

\* status_text showing the index itself instead of index + 1
status_text_zero_based(current, results) ==
    [current |-> IF current >= 0 THEN current ELSE 0, total |-> Len(results)]

\* __update_search_status, lines 191-193
status_text(current, results) ==
    [current |-> IF current >= 0 THEN current + 1 ELSE 0, total |-> Len(results)]

(***************************************************************************)
(* modules/lieutenant_terraform.py: the command runner                     *)
(***************************************************************************)
RECURSIVE Join(_, _)
Join(words, sep) ==
    IF words = <<>> THEN <<>>
    ELSE IF Len(words) = 1 THEN words[1]
    ELSE words[1] \o sep \o Join(Tail(words), sep)

\* str(cmd) of a list of str, as the f-string prints it: ['sh', '-c']
ListRepr(cmd) ==
    <<"[">> \o Join([k \in 1..Len(cmd) |-> <<"'">> \o cmd[k] \o <<"'">>], <<",", " ">>)
            \o <<"]">>

\* str(n) of a return code 0..9
IntStr(n) == <<<<"0", "1", "2", "3", "4", "5", "6", "7", "8", "9">>[n + 1]>>

\* __run, line 230: the error line
error_message(cmd, returncode) ==
    <<"E", "r", "r", "o", "r", ":", " ", "C", "o", "m", "m", "a", "n", "d", " ", "'">>
    \o ListRepr(cmd)
    \o <<"'", " ", "f", "a", "i", "l", "e", "d", " ", "w", "i", "t", "h", " ",
         "r", "e", "t", "u", "r", "n", " ", "c", "o", "d", "e", " ">>
    \o IntStr(returncode) \o <<"\n">>

\* __run, lines 221-231, for a process that was launched: the text inserted
run_text(cmd, output, returncode) ==
    IF returncode # 0 THEN output \o error_message(cmd, returncode) ELSE output

\* text ends with the sequence tail
EndsWith(text, tail) ==
    /\ Len(tail) <= Len(text)
    /\ SubSeq(text, Len(text) - Len(tail) + 1, Len(text)) = tail

(***************************************************************************)
(* Bounds of the model and the inputs drawn from them                      *)
(***************************************************************************)
MaxLen == 3

MaxPatLen == 2

TextAlphabet == {"a", "b", "\n"}

PatternAlphabet == {"a", ".", "+"}

SeqsUpTo(S, n) == UNION {[1..m -> S] : m \in 0..n}

FooBarFoo == <<"f", "o", "o", " ", "b", "a", "r", " ", "f", "o", "o">>

Foo == <<"f", "o", "o">>

\* what the command may have printed into the output pane
Buffers == SeqsUpTo(TextAlphabet, MaxLen) \cup {FooBarFoo}

\* what the user may type into the search entry
Patterns == SeqsUpTo(PatternAlphabet, MaxPatLen) \cup {Foo}

\* the argument vectors the program is started with
Commands == {<<>>, <<<<"a">>, <<"-", "b">>>>}

\* what a launched command prints
Outputs == {<<>>, <<"a", "b", "\n">>}

ReturnCodes == {0, 1, 2}

\* what Tk.geometry() may answer on exit
Geometries == {"800x600+0+0", "1024x768+10+10"}

JsonTrue == [type |-> "literal", value |-> "true"]

JsonFalse == [type |-> "literal", value |-> "false"]

JsonStr(str) == [type |-> "string", value |-> str]

\* the JSON values a configuration file may give to a key of a category
FileValues(cat, key) ==
    IF cat = "settings"
    THEN IF key = SaveGeometryKey THEN {JsonTrue, JsonFalse} ELSE {JsonStr("1024x768")}
    ELSE IF cat = "cmds"
    THEN IF key = "terraform" THEN {JsonStr("/opt/bin/terraform")} ELSE {JsonStr("/opt/bin/git")}
    ELSE {JsonStr("terraform")}

\* the keys a configuration file may set in a category
FileKeys(cat) ==
    IF cat = "settings" THEN {SaveGeometryKey, GeometryKey}
    ELSE IF cat = "cmds" THEN {"terraform", "git"}
    ELSE {"tf"}

AllFileValues ==
    UNION {UNION {FileValues(cat, key) : key \in FileKeys(cat)} : cat \in Categories}

\* the JSON objects a configuration file may hold for a category
FileObjects(cat) ==
    UNION {{obj \in [keys -> AllFileValues] : \A k \in keys : obj[k] \in FileValues(cat, k)} :
              keys \in SUBSET FileKeys(cat)}

NoMember == [present |-> FALSE, value |-> EmptyDict]

Member(v) == [present |-> TRUE, value |-> v]

OptionalMembers(values) == {NoMember} \cup {Member(v) : v \in values}

\* a top-level key no default names
UnknownKey == "theme"

MakeDoc(settings, cmds, aliases, unknown) ==
    LET m == [k \in Categories \cup {UnknownKey} |->
                 IF k = "settings" THEN settings
                 ELSE IF k = "cmds" THEN cmds
                 ELSE IF k = "aliases" THEN aliases
                 ELSE unknown]
    IN  [k \in {k2 \in DOMAIN m : m[k2].present} |-> m[k].value]

\* every configuration document over the keys and values above
Docs ==
    {MakeDoc(s, c, a, u) :
        s \in OptionalMembers(FileObjects("settings")),
        c \in OptionalMembers(FileObjects("cmds")),
        a \in OptionalMembers(FileObjects("aliases")),
        u \in OptionalMembers({JsonStr("dark")})}

\* two documents: one switches "Save window geometry on exit" off, one sets
\* a geometry, an alias and an unknown top-level key
DocNoSave ==
    MakeDoc(Member([k \in {SaveGeometryKey} |-> JsonFalse]), NoMember, NoMember, NoMember)

DocGeometry ==
    MakeDoc(Member([k \in {GeometryKey} |-> JsonStr("1024x768")]), NoMember,
            Member([k \in {"tf"} |-> JsonStr("terraform")]), Member(JsonStr("dark")))

\* the arguments update() is called with
Updates ==
    {[k \in {"settings"} |-> [k2 \in {GeometryKey} |-> PyStr("640x480")]],
     [k \in {"cmds", UnknownKey} |->
         IF k = "cmds" THEN [k2 \in {"terraform"} |-> PyStr("tofu")] ELSE PyStr("light")]}

\* what the user may type into a text field of the preferences editor
EditorStrings == {"tofu"}

(***************************************************************************)
(* Methods of LieutenantTerraformConfig                                    *)
(***************************************************************************)
\* __init__: locate the file, set the defaults, load the file if there is one.
\* An exception of load escapes the constructor and ends the caller.
cfg_init ==
    /\ pc = "start"
    /\ LET path == resolve_path(environ, files) IN
       /\ config_file' = path
       /\ IF path = ""
          THEN prefs' = DefaultPrefs /\ raised' = "" /\ pc' = "configured"
          ELSE IF LoadError(path) # ""
          THEN prefs' = DefaultPrefs /\ raised' = LoadError(path) /\ pc' = "crashed"
          ELSE /\ prefs' = LoadPrefs(DefaultPrefs, path, files[path].doc)
               /\ raised' = ""
               /\ pc' = "configured"
    /\ last_call' = "cfg_init"
    /\ UNCHANGED <<envVars, files, searchVars, exit_requested>>

\* load(config_file)
load ==
    /\ pc = "configured"
    /\ \E path \in Paths :
          IF LoadError(path) # ""
          THEN raised' = LoadError(path) /\ prefs' = prefs
          ELSE raised' = "" /\ prefs' = LoadPrefs(prefs, config_file, files[path].doc)
    /\ last_call' = "load"
    /\ UNCHANGED <<pc, envVars, config_file, files, searchVars, exit_requested>>

\* save, lines 77-83, writing the preferences p; ok: the file could be opened
save_body(p, ok) ==
    /\ config_file' = SavePath(config_file)
    /\ files' = IF ok
                THEN [files EXCEPT ![SavePath(config_file)] = JsonFile(DataToSave(p))]
                ELSE files

\* save()
save ==
    /\ pc = "configured"
    /\ \E ok \in BOOLEAN :
          /\ save_body(prefs, ok)
          /\ raised' = IF ok THEN "" ELSE "OSError"
    /\ last_call' = "save"
    /\ UNCHANGED <<pc, envVars, prefs, searchVars, exit_requested>>

\* update(updates, save_config)
update ==
    /\ pc = "configured"
    /\ \E updates \in Updates, save_config \in BOOLEAN :
          LET p == UpdatePrefs(prefs, updates, DOMAIN updates) IN
          /\ prefs' = p
          /\ IF save_config
             THEN \E ok \in BOOLEAN :
                     /\ save_body(p, ok)
                     /\ raised' = IF ok THEN "" ELSE "OSError"
             ELSE UNCHANGED <<config_file, files>> /\ raised' = ""
    /\ last_call' = "update"
    /\ UNCHANGED <<pc, envVars, searchVars, exit_requested>>

(***************************************************************************)
(* The main window: start, preferences editor, exit                        *)
(***************************************************************************)
\* LieutenantTerraform.__init__ after the configuration: __load_main builds the
\* window and calls __run(cmd) before entering mainloop.  launched: Popen
\* could start the process.
load_main ==
    /\ pc = "configured"
    /\ \E launched \in BOOLEAN :
          /\ argv = <<>> => ~launched
          /\ IF launched
             THEN \E output \in Outputs, returncode \in ReturnCodes :
                     /\ main_text_area' = run_text(argv, output, returncode)
                     /\ raised' = ""
                     /\ pc' = "mainloop"
             ELSE \* "except Exception" reads e.cmd of an exception that has none
                  /\ main_text_area' = main_text_area
                  /\ raised' = "AttributeError"
                  /\ pc' = "crashed"
    /\ last_call' = "run"
    /\ UNCHANGED <<envVars, storeVars, highlight, current_highlight, search_entry,
                   search_results, current_match_index, search_status, exit_requested>>

\* the fields of a preferences editor opened on the dict d, as the user may
\* leave them: a checkbox for a bool, a text field holding str(value) otherwise
EditorEntries(d) ==
    {e \in [DOMAIN d -> {PyBool(TRUE), PyBool(FALSE)} \cup {d[k] : k \in DOMAIN d}
                           \cup {PyStr(str) : str \in EditorStrings}] :
        \A k \in DOMAIN d :
           IF d[k].type = "bool" THEN e[k].type = "bool"
           ELSE e[k] = d[k] \/ e[k] \in {PyStr(str) : str \in EditorStrings}}

\* PreferencesUI.__save_settings: the Save button of a preferences editor.
\* (lieutenant_terraform.py imports the editor as Preferences_UI, a name
\* preferences_ui.py does not define; the menu entries are taken to open
\* PreferencesUI, the class that file does define.)
save_settings ==
    /\ pc = "mainloop"
    /\ \E cat \in Categories, ok \in BOOLEAN :
          \E entries \in EditorEntries(prefs[cat]) :
             LET p == [prefs EXCEPT ![cat] = DictUpdate(@, entries)] IN
             /\ prefs' = p
             /\ save_body(p, ok)
             /\ raised' = IF ok THEN "" ELSE "OSError"
    /\ last_call' = "save_settings"
    /\ UNCHANGED <<pc, envVars, searchVars, exit_requested>>

\* the Exit button is pressed or the window manager asks to close the window
request_exit ==
    /\ pc = "mainloop"
    /\ ~exit_requested
    /\ exit_requested' = TRUE
    /\ last_call' = "request_exit"
    /\ UNCHANGED <<pc, envVars, storeVars, searchVars, raised>>

\* save_on_exit ignoring the setting
save_on_exit_always(p) == TRUE

\* __exit, line 204: the condition of the if
save_on_exit(p) == Truthy(p["settings"][SaveGeometryKey])

\* __exit
exit ==
    /\ pc = "mainloop"
    /\ exit_requested
    /\ IF save_on_exit(prefs)
       THEN \E geometry \in Geometries, ok \in BOOLEAN :
               LET p == [prefs EXCEPT !["settings"][GeometryKey] = PyStr(geometry)] IN
               /\ prefs' = p
               /\ save_body(p, ok)
       ELSE UNCHANGED storeVars
    /\ exit_requested' = FALSE
    /\ pc' = "destroyed"
    /\ raised' = ""
    /\ last_call' = "exit"
    /\ UNCHANGED <<envVars, searchVars>>

(***************************************************************************)
(* Search handlers of the main window                                      *)
(***************************************************************************)
\* the user edits the search Entry widget
type_pattern ==
    /\ pc = "mainloop"
    /\ \E pattern \in Patterns : search_entry' = pattern
    /\ last_call' = "type_pattern"
    /\ UNCHANGED <<pc, envVars, storeVars, main_text_area, highlight,
                   current_highlight, search_results, current_match_index,
                   search_status, exit_requested, raised>>

\* __highlight_current_match, lines 179-181: the new "current_highlight" tag
highlight_current_match(text, results, current) ==
    TagRange(text, results[current + 1])

\* __find: the Find button or <Return> in the search entry
find ==
    /\ pc = "mainloop"
    /\ LET pattern == search_entry
           cleared == tag_remove(highlight)
           cleared_current == tag_remove(current_highlight)
       IN
       IF pattern = <<>>
       THEN /\ search_results' = <<>>
            /\ current_match_index' = -1
            /\ highlight' = cleared
            /\ current_highlight' = cleared_current
            /\ search_status' = [current |-> 0, total |-> 0]
            /\ raised' = ""
       ELSE IF ~ValidRegex(pattern)
       THEN \* Text.search raises TclError, which "except re.error" does not catch
            /\ search_results' = <<>>
            /\ current_match_index' = -1
            /\ highlight' = cleared
            /\ current_highlight' = cleared_current
            /\ search_status' = search_status
            /\ raised' = "TclError"
       ELSE LET results == find_loop(main_text_area, pattern, 0, <<>>)
                current == IF results = <<>> THEN -1
                           ELSE next_index(-1, Len(results))
            IN  /\ search_results' = results
                /\ current_match_index' = current
                /\ highlight' = cleared \cup UNION {TagRange(main_text_area, results[k]) :
                                                       k \in 1..Len(results)}
                /\ current_highlight' =
                      IF results = <<>> THEN cleared_current
                      ELSE highlight_current_match(main_text_area, results, current)
                /\ search_status' = status_text(current, results)
                /\ raised' = ""
    /\ last_call' = "find"
    /\ UNCHANGED <<pc, envVars, storeVars, main_text_area, search_entry, exit_requested>>

\* __next_match: the ">" button
next_match ==
    /\ pc = "mainloop"
    /\ IF search_results = <<>>
       THEN UNCHANGED <<current_match_index, current_highlight, search_status>>
       ELSE LET current == next_index(current_match_index, Len(search_results))
            IN  /\ current_match_index' = current
                /\ current_highlight' =
                      highlight_current_match(main_text_area, search_results, current)
                /\ search_status' = status_text(current, search_results)
    /\ raised' = ""
    /\ last_call' = "next_match"
    /\ UNCHANGED <<pc, envVars, storeVars, main_text_area, highlight, search_entry,
                   search_results, exit_requested>>

\* __previous_match: the "<" button
previous_match ==
    /\ pc = "mainloop"
    /\ IF search_results = <<>>
       THEN UNCHANGED <<current_match_index, current_highlight, search_status>>
       ELSE LET current == previous_index(current_match_index, Len(search_results))
            IN  /\ current_match_index' = current
                /\ current_highlight' =
                      highlight_current_match(main_text_area, search_results, current)
                /\ search_status' = status_text(current, search_results)
    /\ raised' = ""
    /\ last_call' = "previous_match"
    /\ UNCHANGED <<pc, envVars, storeVars, main_text_area, highlight, search_entry,
                   search_results, exit_requested>>

(***************************************************************************)
(* Specifications                                                          *)
(***************************************************************************)
Environs == {NoEnv, [k \in {"LT_CFG"} |-> ""], [k \in {"LT_CFG"} |-> EnvPath]}

\* lines 29, 35-36 and 104 of lieutenant_terraform.py: the widgets as built
WidgetsInit ==
    /\ main_text_area = <<>>
    /\ highlight = {}
    /\ current_highlight = {}
    /\ search_entry = <<>>
    /\ search_results = <<>>
    /\ current_match_index = -1
    /\ search_status = [current |-> 0, total |-> 0]
    /\ exit_requested = FALSE

\* the file systems the application is started on
AppFileSystems ==
    {[p \in Paths |-> IF p = EnvPath THEN e ELSE IF p = HomePath THEN h ELSE Absent] :
        e \in {Absent, Garbage, JsonFile(DocNoSave)},
        h \in {Absent, JsonFile(DocGeometry)}}

\* lt.py is started
Init ==
    /\ pc = "start"
    /\ environ \in Environs
    /\ files \in AppFileSystems
    /\ argv \in Commands
    /\ config_file = ""
    /\ prefs = DefaultPrefs
    /\ WidgetsInit
    /\ last_call = ""
    /\ raised = ""

\* The application: start, preferences editor and exit.  The search handlers
\* read and write searchVars only, which no action below touches once the
\* event loop runs; they are covered by SpecSearch.
Next == cfg_init \/ load_main \/ save_settings \/ request_exit \/ exit

Spec == Init /\ [][Next]_vars

\* Tk dispatches every queued event: a requested exit is handled
FairSpec == Spec /\ WF_vars(exit)

\* every document, in the home directory
HomeFileSystems ==
    {[p \in Paths |-> IF p = HomePath THEN JsonFile(d) ELSE Absent] : d \in Docs}

\* every combination of existing files, all with the same content
SourceFileSystems ==
    {[p \in Paths |-> IF p \in present THEN content ELSE Absent] :
        present \in SUBSET Paths,
        content \in {Garbage, JsonFile(DocNoSave), JsonFile(DocGeometry)}}

\* a client about to construct a LieutenantTerraformConfig
InitStore ==
    /\ pc = "start"
    /\ \/ environ = NoEnv /\ files \in HomeFileSystems
       \/ environ \in Environs /\ files \in SourceFileSystems
    /\ argv = <<>>
    /\ config_file = ""
    /\ prefs = DefaultPrefs
    /\ WidgetsInit
    /\ last_call = ""
    /\ raised = ""

NextStore == cfg_init \/ load \/ save \/ update

SpecStore == InitStore /\ [][NextStore]_vars

\* the main window in its event loop, the command having printed some text
InitSearch ==
    /\ pc = "mainloop"
    /\ environ = NoEnv
    /\ files = [p \in Paths |-> Absent]
    /\ argv = <<<<"a">>>>
    /\ config_file = ""
    /\ prefs = DefaultPrefs
    /\ main_text_area \in Buffers
    /\ highlight = {}
    /\ current_highlight = {}
    /\ search_entry = <<>>
    /\ search_results = <<>>
    /\ current_match_index = -1
    /\ search_status = [current |-> 0, total |-> 0]
    /\ exit_requested = FALSE
    /\ last_call = "run"
    /\ raised = ""

NextSearch == type_pattern \/ find \/ next_match \/ previous_match

SpecSearch == InitSearch /\ [][NextSearch]_vars

(***************************************************************************)
(* Properties of the preference store, checked under SpecStore             *)
(***************************************************************************)
\* the constructor has just loaded the file at config_file
JustLoaded ==
    /\ last_call = "cfg_init"
    /\ pc = "configured"
    /\ config_file # ""

LoadedDoc == files[config_file].doc

OnlyGeometryDoc ==
    MakeDoc(Member([k \in {GeometryKey} |-> JsonStr("1024x768")]), NoMember, NoMember,
            NoMember)

\* the Python value a JSON scalar stands for
PyValue(j) ==
    IF j = JsonTrue THEN PyBool(TRUE)
    ELSE IF j = JsonFalse THEN PyBool(FALSE)
    ELSE PyStr(j.value)

(***************************************************************************)
(* C1: config merge on load.  After the constructor loaded a file, in each *)
(* of settings, cmds and aliases the keys the file names hold the file's   *)
(* values and every default key the file does not name keeps its default;  *)
(* a file that sets only settings["Window geometry"] leaves                *)
(* settings["Save window geometry on exit"] true.                          *)
(***************************************************************************)
ConfigMergeOnLoad ==
    JustLoaded =>
       /\ \A cat \in Categories :
             /\ cat \in DOMAIN prefs
             /\ cat \in DOMAIN LoadedDoc =>
                   \A k \in DOMAIN LoadedDoc[cat] :
                      /\ k \in DOMAIN prefs[cat]
                      /\ prefs[cat][k] = PyValue(LoadedDoc[cat][k])
             /\ \A k \in DOMAIN DefaultPrefs[cat] :
                   (cat \notin DOMAIN LoadedDoc \/ k \notin DOMAIN LoadedDoc[cat]) =>
                      /\ k \in DOMAIN prefs[cat]
                      /\ prefs[cat][k] = DefaultPrefs[cat][k]
       /\ LoadedDoc = OnlyGeometryDoc =>
             /\ prefs["settings"][GeometryKey] = PyStr("1024x768")
             /\ prefs["settings"][SaveGeometryKey] = PyBool(TRUE)

ConfigMergeWitness ==
    /\ JustLoaded
    /\ environ = NoEnv
    /\ config_file = HomePath
    /\ LoadedDoc = OnlyGeometryDoc
    /\ prefs["settings"] = [k \in {SaveGeometryKey, GeometryKey} |->
                               IF k = GeometryKey THEN PyStr("1024x768") ELSE PyBool(TRUE)]
    /\ prefs["cmds"] = DefaultPrefs["cmds"]

(***************************************************************************)
(* C2: config path precedence.  The constructor resolves the location to   *)
(* the value of LT_CFG when the variable is set, else to ./.lt_cfg.json    *)
(* when that file exists, else to $HOME/.lt_cfg.json when that file        *)
(* exists, else to none, in which case the preferences are the defaults.   *)
(***************************************************************************)
ConfigPathPrecedence ==
    last_call = "cfg_init" =>
       /\ "LT_CFG" \in DOMAIN environ => config_file = environ["LT_CFG"]
       /\ ("LT_CFG" \notin DOMAIN environ /\ files[LocalPath].kind # "absent") =>
             config_file = LocalPath
       /\ ("LT_CFG" \notin DOMAIN environ /\ files[LocalPath].kind = "absent"
              /\ files[HomePath].kind # "absent") => config_file = HomePath
       /\ ("LT_CFG" \notin DOMAIN environ /\ files[LocalPath].kind = "absent"
              /\ files[HomePath].kind = "absent") =>
             config_file = "" /\ prefs = DefaultPrefs /\ pc = "configured"

ConfigPathWitness ==
    /\ last_call = "cfg_init"
    /\ "LT_CFG" \in DOMAIN environ
    /\ \A p \in Paths : files[p].kind = "json"
    /\ config_file = EnvPath
    /\ pc = "configured"

ConfigPathLocalWitness ==
    /\ last_call = "cfg_init"
    /\ "LT_CFG" \notin DOMAIN environ
    /\ files[LocalPath].kind = "json"
    /\ files[HomePath].kind = "json"
    /\ config_file = LocalPath

(***************************************************************************)
(* C3: unknown top-level keys survive load.  After the constructor loaded  *)
(* a file, every top-level key of the file other than settings, cmds and   *)
(* aliases is a key of the preferences with the file's value.              *)
(***************************************************************************)
UnknownKeysSurviveLoad ==
    JustLoaded =>
       \A k \in (DOMAIN LoadedDoc) \ Categories :
          /\ k \in DOMAIN prefs
          /\ prefs[k] = PyValue(LoadedDoc[k])

(***************************************************************************)
(* C4: save round-trip.  After a successful save the file at the store's   *)
(* location does not hold the key config_file, and loading it into a       *)
(* store holding the defaults gives settings, cmds and aliases equal to    *)
(* the saved ones; a save without a location writes $HOME/.lt_cfg.json,    *)
(* which becomes the location, and a save with a location keeps it.        *)
(***************************************************************************)
SaveRoundTrip ==
    [][(last_call' = "save" /\ raised' = "") =>
          /\ config_file' = (IF config_file = "" THEN HomePath ELSE config_file)
          /\ files'[config_file'].kind = "json"
          /\ \A p \in Paths \ {config_file'} : files'[p] = files[p]
          /\ "config_file" \notin DOMAIN files'[config_file'].doc
          /\ \A cat \in Categories :
                LoadPrefs(DefaultPrefs, "", files'[config_file'].doc)[cat] = prefs'[cat]
      ]_vars

SaveRoundTripWitness ==
    /\ last_call = "save"
    /\ raised = ""
    /\ "config_file" \notin DOMAIN prefs
    /\ UnknownKey \in DOMAIN prefs
    /\ prefs["cmds"]["terraform"] = PyStr("tofu")
    /\ config_file = HomePath
    /\ files[HomePath] = JsonFile(JsonDump(prefs))

SaveRoundTripLoadedWitness ==
    /\ last_call = "save"
    /\ raised = ""
    /\ "config_file" \in DOMAIN prefs
    /\ prefs["settings"][SaveGeometryKey] = PyBool(FALSE)
    /\ prefs["settings"][GeometryKey] = PyStr("640x480")
    /\ files[config_file].kind = "json"
    /\ DOMAIN files[config_file].doc = Categories

(***************************************************************************)
(* Properties of the search handlers, checked under SpecSearch             *)
(***************************************************************************)
\* a search with a non-empty valid pattern has just run
JustSearched ==
    /\ last_call = "find"
    /\ search_entry # <<>>
    /\ ValidRegex(search_entry)

(***************************************************************************)
(* C5: match sequence shape.  After a search with a non-empty valid        *)
(* pattern the match sequence is, in document order, the ranges            *)
(* (start, start + len(pattern)) met when scanning from offset 0 and       *)
(* resuming at each recorded end: starts strictly increase, ranges do not  *)
(* overlap, a match starts at every recorded start and every other match   *)
(* start lies inside a recorded range, so that nothing of an earlier       *)
(* search remains; "foo" in "foo bar foo" gives exactly (0,3) and (8,11).  *)
(***************************************************************************)
MatchShape(text, pattern, results) ==
    /\ \A k \in 1..Len(results) :
          /\ results[k][1] \in 0..(Len(text) - 1)
          /\ results[k][2] = results[k][1] + Len(pattern)
          /\ MatchesAt(text, pattern, results[k][1])
    /\ \A k \in 1..(Len(results) - 1) :
          /\ results[k][1] < results[k + 1][1]
          /\ results[k][2] <= results[k + 1][1]
    /\ \A o \in 0..(Len(text) - 1) :
          MatchesAt(text, pattern, o) =>
             \E k \in 1..Len(results) : results[k][1] <= o /\ o < results[k][2]
    /\ (text = FooBarFoo /\ pattern = Foo) => results = <<<<0, 3>>, <<8, 11>>>>

MatchSequenceShape ==
    [][(last_call' = "find" /\ search_entry # <<>> /\ ValidRegex(search_entry))
          => MatchShape(main_text_area, search_entry, search_results')]_vars

MatchSequenceWitness ==
    /\ JustSearched
    /\ main_text_area = FooBarFoo
    /\ search_entry = Foo
    /\ search_results = <<<<0, 3>>, <<8, 11>>>>
    /\ highlight = {0, 1, 2, 8, 9, 10}

\* a variable-length pattern measured by the length of the pattern string
MatchSequenceQuantifierWitness ==
    /\ JustSearched
    /\ main_text_area = <<"a", "a", "a">>
    /\ search_entry = <<"a", "+">>
    /\ search_results = <<<<0, 2>>, <<2, 4>>>>

(***************************************************************************)
(* C6: search cycling.  A search that finds N >= 1 matches leaves the      *)
(* index at 0; next moves the index to (current + 1) mod N, so N calls of  *)
(* next from there return to 0; previous moves it to (current - 1) mod N,  *)
(* from 0 to N - 1; with no matches both leave the index unchanged.        *)
(***************************************************************************)
RECURSIVE NextTimes(_, _, _)
NextTimes(current, count, times) ==
    IF times = 0 THEN current
    ELSE NextTimes(next_index(current, count), count, times - 1)

SearchCycling ==
    [][LET count == Len(search_results) IN
       /\ (last_call' = "find" /\ search_results' # <<>>) =>
             /\ current_match_index' = 0
             /\ NextTimes(0, Len(search_results'), Len(search_results')) = 0
             /\ previous_index(0, Len(search_results')) = Len(search_results') - 1
       /\ (last_call' = "next_match" /\ count >= 1) =>
             /\ current_match_index' =
                   (IF current_match_index = count - 1 THEN 0 ELSE current_match_index + 1)
             /\ search_results' = search_results
       /\ (last_call' = "previous_match" /\ count >= 1) =>
             /\ current_match_index' =
                   (IF current_match_index = 0 THEN count - 1 ELSE current_match_index - 1)
             /\ search_results' = search_results
       /\ (last_call' \in {"next_match", "previous_match"} /\ count = 0) =>
             /\ current_match_index' = current_match_index
             /\ search_results' = search_results
             /\ search_status' = search_status
      ]_vars

\* previous has wrapped from the first match to the last of three
SearchCyclingWitness ==
    /\ last_call = "previous_match"
    /\ Len(search_results) = 3
    /\ current_match_index = 2
    /\ search_status = [current |-> 3, total |-> 3]

\* next has wrapped from the last match to the first
SearchCyclingNextWitness ==
    /\ last_call = "next_match"
    /\ Len(search_results) = 2
    /\ current_match_index = 0
    /\ current_highlight = TagRange(main_text_area, search_results[1])

(***************************************************************************)
(* C7: empty pattern reset.  A search with the empty pattern leaves, from  *)
(* any prior state, an empty match sequence, index -1, no highlight of     *)
(* either kind and the status 0/0.                                         *)
(***************************************************************************)
EmptyPatternReset ==
    [][(last_call' = "find" /\ search_entry = <<>>) =>
          /\ search_results' = <<>>
          /\ current_match_index' = -1
          /\ highlight' = {}
          /\ current_highlight' = {}
          /\ search_status' = [current |-> 0, total |-> 0]
      ]_vars

EmptyPatternWitness ==
    /\ last_call = "find"
    /\ search_entry = <<>>
    /\ main_text_area = FooBarFoo
    /\ search_results = <<>>
    /\ current_match_index = -1
    /\ highlight = {}
    /\ search_status = [current |-> 0, total |-> 0]

(***************************************************************************)
(* C11: search index invariant.  After any sequence of searches, next and  *)
(* previous, the index lies in -1..count-1 for count the length of the     *)
(* match sequence, it is -1 exactly when the match sequence is empty, and  *)
(* the status label current/total satisfies 0 <= current <= total with     *)
(* current = 0 only when total = 0.                                        *)
(***************************************************************************)
SearchIndexInvariant ==
    /\ current_match_index \in -1..(Len(search_results) - 1)
    /\ (current_match_index = -1) <=> (search_results = <<>>)
    /\ 0 <= search_status.current
    /\ search_status.current <= search_status.total
    /\ (search_status.current = 0) => (search_status.total = 0)

\* the second of two matches is selected, reached by next from the first
SearchIndexWitness ==
    /\ last_call = "next_match"
    /\ raised = ""
    /\ Len(search_results) = 2
    /\ current_match_index = 1
    /\ search_status = [current |-> 2, total |-> 2]
    /\ current_highlight = TagRange(main_text_area, search_results[2])

\* after a pattern Tk rejects the label still shows the previous search
SearchIndexStaleLabelWitness ==
    /\ last_call = "find"
    /\ raised = "TclError"
    /\ search_results = <<>>
    /\ current_match_index = -1
    /\ search_status = [current |-> 1, total |-> 2]

(***************************************************************************)
(* Properties of the application, checked under Spec and FairSpec          *)
(***************************************************************************)
(***************************************************************************)
(* C8: command failure is reported, never fatal.  Whatever the argument    *)
(* vector and the fate of the process, no exception escapes the runner and *)
(* the application enters its event loop.                                  *)
(***************************************************************************)
CommandFailureNeverFatal ==
    last_call = "run" => (raised = "" /\ pc = "mainloop")

(***************************************************************************)
(* C9: config load failure falls back to defaults.  When the resolved      *)
(* file cannot be read or is not valid JSON the application still starts,  *)
(* with the default preferences.                                           *)
(***************************************************************************)
ConfigLoadFailureFallsBack ==
    (last_call = "cfg_init" /\ config_file # "" /\ files[config_file].kind # "json") =>
       (pc = "configured" /\ prefs = DefaultPrefs)

(***************************************************************************)
(* C10: exit always closes.  Every requested exit is followed by the       *)
(* destruction of the main window.  The exit handler destroys the window   *)
(* whether or not the save fails; when "Save window geometry on exit" is   *)
(* true it stores a window geometry in settings["Window geometry"],        *)
(* changes nothing else of the preferences and writes them to the store's  *)
(* location unless the write fails; when the setting is false it changes   *)
(* neither the preferences nor any file.                                   *)
(***************************************************************************)
ExitStep ==
    LET enabled == prefs["settings"][SaveGeometryKey] = PyBool(TRUE)
        path    == IF config_file = "" THEN HomePath ELSE config_file
    IN  /\ pc' = "destroyed"
        /\ enabled =>
              /\ \E g \in Geometries :
                    prefs' = [prefs EXCEPT !["settings"][GeometryKey] = PyStr(g)]
              /\ \/ files' = files
                 \/ files' = [files EXCEPT
                                 ![path] = JsonFile(JsonDump(
                                    [k \in (DOMAIN prefs') \ {"config_file"} |-> prefs'[k]]))]
        /\ ~enabled => (prefs' = prefs /\ files' = files)

ExitAlwaysCloses ==
    /\ exit_requested ~> (pc = "destroyed")
    /\ [][(pc = "mainloop" /\ last_call' = "exit") => ExitStep]_vars

\* closed after the save on exit failed
ExitWitness ==
    /\ pc = "destroyed"
    /\ last_call = "exit"
    /\ prefs["settings"][SaveGeometryKey] = PyBool(TRUE)
    /\ prefs["settings"][GeometryKey] = PyStr("1024x768+10+10")
    /\ files[HomePath].kind = "absent"
    /\ config_file = HomePath

\* closed with the setting switched off in the preferences editor
ExitNoSaveWitness ==
    /\ pc = "destroyed"
    /\ last_call = "exit"
    /\ prefs["settings"][SaveGeometryKey] = PyBool(FALSE)
    /\ prefs["settings"][GeometryKey] = PyStr("")
    /\ files[HomePath].kind = "json"

====
